---- MODULE Spec2Model ----
(***************************************************************************)
(* eastl::allocator_malloc (include/EASTL/allocator_malloc.h).             *)
(*                                                                         *)
(* The class has no data members.  Its behaviour is fixed by the build     *)
(* configuration (the EA_PLATFORM_* macros and the availability macro      *)
(* EASTL_ALIGNED_MALLOC_AVAILABLE) and by the C library primitives it      *)
(* forwards to.  The model keeps the build configuration, the blocks the   *)
(* C library currently has outstanding, and a record of the last member    *)
(* function call with the primitive calls it made.                         *)
(***************************************************************************)
EXTENDS Integers, Sequences, FiniteSets

\* ------------------------------------------------------------------ bounds
MaxSize == 1
MaxAlignLog == 4
MaxAddr == 16
MaxLive == 1

\* ------------------------------------------------------- program constants
\* EASTL_SYSTEM_ALLOCATOR_MIN_ALIGNMENT: set in EASTL/internal/config.h
\* (EA_PLATFORM_PTR_SIZE * 2, i.e. 8 on a 32 bit target).
EASTL_SYSTEM_ALLOCATOR_MIN_ALIGNMENT == 8

NULL == 0

\* ------------------------------------------------------------ input domains
Instances == {1, 2}
Names == {"NULL", "tag"}
Sizes == 0..MaxSize
Flags == {0, 1}
Addresses == 1..MaxAddr

RECURSIVE Pow2(_)
Pow2(k) == IF k = 0 THEN 1 ELSE 2 * Pow2(k - 1)

IsPow2(x) == \E k \in 0..(MaxAlignLog + 2) : x = Pow2(k)

\* alignments handed to allocate: the minimum alignment and the powers of
\* two above it
Alignments == {Pow2(k) : k \in 3..MaxAlignLog}

\* offsets handed to allocate: none, one that no alignment divides, and the
\* minimum alignment itself (a multiple of one alignment and not of the others)
Offsets == {0, 3, EASTL_SYSTEM_ALLOCATOR_MIN_ALIGNMENT}

\* ----------------------------------------------------- build configuration
\* what a build defines before the header is read: the platform macros and,
\* possibly, EASTL_ALIGNED_MALLOC_AVAILABLE itself
Builds ==
    {b \in [EA_PLATFORM_POSIX : BOOLEAN, EA_PLATFORM_APPLE : BOOLEAN,
            EA_PLATFORM_MICROSOFT : BOOLEAN,
            predefined : {"undefined", "0", "1"}] :
        /\ b.EA_PLATFORM_APPLE => b.EA_PLATFORM_POSIX
        /\ b.EA_PLATFORM_MICROSOFT => ~b.EA_PLATFORM_POSIX}

\* #if !defined EASTL_ALIGNED_MALLOC_AVAILABLE ... #endif
AlignedMallocAvailable(b) ==
    IF b.predefined # "undefined"
    THEN b.predefined = "1"
    ELSE IF (b.EA_PLATFORM_POSIX /\ ~b.EA_PLATFORM_APPLE) \/ b.EA_PLATFORM_MICROSOFT
         THEN TRUE
         ELSE FALSE

\* the two macros the class body tests, as the build resolves them
Platform(b) ==
    [EASTL_ALIGNED_MALLOC_AVAILABLE |-> AlignedMallocAvailable(b),
     EA_PLATFORM_MICROSOFT |-> b.EA_PLATFORM_MICROSOFT]

VARIABLES
    platform,   \* the resolved build configuration, fixed for the program's lifetime
    name,       \* name[i]: the label the caller last asked instance i to carry
    heap,       \* blocks the C library has outstanding: [addr, prim]
    freed,      \* the free primitives invoked so far
    call        \* the last member function call and the primitive calls it made

vars == <<platform, name, heap, freed, call>>

\* one call of a C library primitive and the value it returned
PrimCall(prim, args, result) == [prim |-> prim, args |-> args, result |-> result]

NoCall ==
    [op |-> "none", self |-> 0, other |-> 0, n |-> 0, alignment |-> 0,
     alignmentOffset |-> 0, trace |-> <<>>, ret |-> NULL,
     bool |-> FALSE, origin |-> "none"]

\* ------------------------------------------------------ C library contracts
LiveAddrs == {b.addr : b \in heap}

FreshAddrs == IF Cardinality(heap) >= MaxLive THEN {} ELSE Addresses \ LiveAddrs

\* what the primitive call c may return with the heap as it is
Returns(c) ==
    {NULL} \cup
    CASE c.prim = "malloc" ->
            {a \in FreshAddrs : a % EASTL_SYSTEM_ALLOCATOR_MIN_ALIGNMENT = 0}
      [] c.prim = "memalign" ->
            IF IsPow2(c.args[1])
            THEN {a \in FreshAddrs : a % c.args[1] = 0}
            ELSE {}
      [] c.prim = "_aligned_malloc" ->
            IF IsPow2(c.args[2])
            THEN {a \in FreshAddrs : a % c.args[2] = 0}
            ELSE {}
      [] c.prim = "_aligned_offset_malloc" ->
            IF IsPow2(c.args[2])
            THEN {a \in FreshAddrs : (a + c.args[3]) % c.args[2] = 0}
            ELSE {}
      [] OTHER -> {}

\* the free primitive the C library requires for a block of this allocator
FreeFor(prim) ==
    IF prim \in {"_aligned_malloc", "_aligned_offset_malloc"}
    THEN "_aligned_free"
    ELSE "free"

\* ------------------------------------------------------- member functions
\* Each takes the object (this), the build configuration, its arguments and
\* r, the value the primitive it calls returns; it yields the primitive
\* calls made and the value returned.

\* operator== comparing the labels, as an allocator that stores one would
operator_eq_by_name(this, other) == this.name = other.name

\* bool operator==(const allocator_malloc&)
operator_eq(this, other) == TRUE

\* bool operator!=(const allocator_malloc&)
operator_ne(this, other) == FALSE

\* allocate(n) taking the aligned primitive wherever one is available
allocate_wherever_available(this, p, n, flags, r) ==
    IF p.EASTL_ALIGNED_MALLOC_AVAILABLE
    THEN [trace |-> <<PrimCall("_aligned_malloc",
                               <<n, EASTL_SYSTEM_ALLOCATOR_MIN_ALIGNMENT>>, r)>>,
          ret |-> r]
    ELSE [trace |-> <<PrimCall("malloc", <<n>>, r)>>, ret |-> r]

\* void* allocate(size_t n, int flags = 0)
allocate(this, p, n, flags, r) ==
    IF p.EASTL_ALIGNED_MALLOC_AVAILABLE /\ p.EA_PLATFORM_MICROSOFT
    THEN [trace |-> <<PrimCall("_aligned_malloc",
                               <<n, EASTL_SYSTEM_ALLOCATOR_MIN_ALIGNMENT>>, r)>>,
          ret |-> r]
    ELSE [trace |-> <<PrimCall("malloc", <<n>>, r)>>, ret |-> r]

\* allocate(n, alignment, offset) with the tests of the offset left out
allocate_aligned_offset_ignored(this, p, n, alignment, alignmentOffset, flags, r) ==
    IF p.EASTL_ALIGNED_MALLOC_AVAILABLE
    THEN IF p.EA_PLATFORM_MICROSOFT
         THEN [trace |-> <<PrimCall("_aligned_malloc", <<n, alignment>>, r)>>,
               ret |-> r]
         ELSE [trace |-> <<PrimCall("memalign", <<alignment, n>>, r)>>,
               ret |-> r]
    ELSE IF alignment <= EASTL_SYSTEM_ALLOCATOR_MIN_ALIGNMENT
         THEN [trace |-> <<PrimCall("malloc", <<n>>, r)>>, ret |-> r]
         ELSE [trace |-> <<>>, ret |-> NULL]

\* allocate(n, alignment, offset) testing (offset == 0) instead of
\* (offset % alignment == 0)
allocate_aligned_offset_zero(this, p, n, alignment, alignmentOffset, flags, r) ==
    IF p.EASTL_ALIGNED_MALLOC_AVAILABLE
    THEN IF p.EA_PLATFORM_MICROSOFT
         THEN IF alignmentOffset = 0
              THEN [trace |-> <<PrimCall("_aligned_malloc", <<n, alignment>>, r)>>,
                    ret |-> r]
              ELSE [trace |-> <<PrimCall("_aligned_offset_malloc",
                                         <<n, alignment, alignmentOffset>>, r)>>,
                    ret |-> r]
         ELSE IF alignmentOffset = 0
              THEN [trace |-> <<PrimCall("memalign", <<alignment, n>>, r)>>,
                    ret |-> r]
              ELSE [trace |-> <<>>, ret |-> NULL]
    ELSE IF (alignment <= EASTL_SYSTEM_ALLOCATOR_MIN_ALIGNMENT)
            /\ (alignmentOffset = 0)
         THEN [trace |-> <<PrimCall("malloc", <<n>>, r)>>, ret |-> r]
         ELSE [trace |-> <<>>, ret |-> NULL]

\* allocate(n, alignment, offset) calling memalign(n, alignment)
allocate_aligned_memalign_swapped(this, p, n, alignment, alignmentOffset, flags, r) ==
    IF p.EASTL_ALIGNED_MALLOC_AVAILABLE
    THEN IF p.EA_PLATFORM_MICROSOFT
         THEN IF (alignmentOffset % alignment) = 0
              THEN [trace |-> <<PrimCall("_aligned_malloc", <<n, alignment>>, r)>>,
                    ret |-> r]
              ELSE [trace |-> <<PrimCall("_aligned_offset_malloc",
                                         <<n, alignment, alignmentOffset>>, r)>>,
                    ret |-> r]
         ELSE IF (alignmentOffset % alignment) = 0
              THEN [trace |-> <<PrimCall("memalign", <<n, alignment>>, r)>>,
                    ret |-> r]
              ELSE [trace |-> <<>>, ret |-> NULL]
    ELSE IF (alignment <= EASTL_SYSTEM_ALLOCATOR_MIN_ALIGNMENT)
            /\ ((alignmentOffset % alignment) = 0)
         THEN [trace |-> <<PrimCall("malloc", <<n>>, r)>>, ret |-> r]
         ELSE [trace |-> <<>>, ret |-> NULL]

\* allocate(n, alignment, offset) without the test against the minimum
\* alignment
allocate_aligned_any_alignment(this, p, n, alignment, alignmentOffset, flags, r) ==
    IF p.EASTL_ALIGNED_MALLOC_AVAILABLE
    THEN IF p.EA_PLATFORM_MICROSOFT
         THEN IF (alignmentOffset % alignment) = 0
              THEN [trace |-> <<PrimCall("_aligned_malloc", <<n, alignment>>, r)>>,
                    ret |-> r]
              ELSE [trace |-> <<PrimCall("_aligned_offset_malloc",
                                         <<n, alignment, alignmentOffset>>, r)>>,
                    ret |-> r]
         ELSE IF (alignmentOffset % alignment) = 0
              THEN [trace |-> <<PrimCall("memalign", <<alignment, n>>, r)>>,
                    ret |-> r]
              ELSE [trace |-> <<>>, ret |-> NULL]
    ELSE IF (alignmentOffset % alignment) = 0
         THEN [trace |-> <<PrimCall("malloc", <<n>>, r)>>, ret |-> r]
         ELSE [trace |-> <<>>, ret |-> NULL]

\* allocate(n, alignment, offset) asking for one byte when n is 0
allocate_aligned_zero_size(this, p, n, alignment, alignmentOffset, flags, r) ==
    IF p.EASTL_ALIGNED_MALLOC_AVAILABLE
    THEN IF p.EA_PLATFORM_MICROSOFT
         THEN IF (alignmentOffset % alignment) = 0
              THEN [trace |-> <<PrimCall("_aligned_malloc", <<(IF n = 0 THEN 1 ELSE n), alignment>>, r)>>,
                    ret |-> r]
              ELSE [trace |-> <<PrimCall("_aligned_offset_malloc",
                                         <<(IF n = 0 THEN 1 ELSE n), alignment, alignmentOffset>>, r)>>,
                    ret |-> r]
         ELSE IF (alignmentOffset % alignment) = 0
              THEN [trace |-> <<PrimCall("memalign", <<alignment, n>>, r)>>,
                    ret |-> r]
              ELSE [trace |-> <<>>, ret |-> NULL]
    ELSE IF (alignment <= EASTL_SYSTEM_ALLOCATOR_MIN_ALIGNMENT)
            /\ ((alignmentOffset % alignment) = 0)
         THEN [trace |-> <<PrimCall("malloc", <<(IF n = 0 THEN 1 ELSE n)>>, r)>>, ret |-> r]
         ELSE [trace |-> <<>>, ret |-> NULL]

\* allocate(n, alignment, offset) refusing a request with flags set
allocate_aligned_flags(this, p, n, alignment, alignmentOffset, flags, r) ==
    IF flags # 0
    THEN [trace |-> <<>>, ret |-> NULL]
    ELSE
    IF p.EASTL_ALIGNED_MALLOC_AVAILABLE
    THEN IF p.EA_PLATFORM_MICROSOFT
         THEN IF (alignmentOffset % alignment) = 0
              THEN [trace |-> <<PrimCall("_aligned_malloc", <<n, alignment>>, r)>>,
                    ret |-> r]
              ELSE [trace |-> <<PrimCall("_aligned_offset_malloc",
                                         <<n, alignment, alignmentOffset>>, r)>>,
                    ret |-> r]
         ELSE IF (alignmentOffset % alignment) = 0
              THEN [trace |-> <<PrimCall("memalign", <<alignment, n>>, r)>>,
                    ret |-> r]
              ELSE [trace |-> <<>>, ret |-> NULL]
    ELSE IF (alignment <= EASTL_SYSTEM_ALLOCATOR_MIN_ALIGNMENT)
            /\ ((alignmentOffset % alignment) = 0)
         THEN [trace |-> <<PrimCall("malloc", <<n>>, r)>>, ret |-> r]
         ELSE [trace |-> <<>>, ret |-> NULL]

\* allocate(n, alignment, offset) without the _aligned_offset_malloc call
allocate_aligned_no_offset_call(this, p, n, alignment, alignmentOffset, flags, r) ==
    IF p.EASTL_ALIGNED_MALLOC_AVAILABLE
    THEN IF p.EA_PLATFORM_MICROSOFT
         THEN IF (alignmentOffset % alignment) = 0
              THEN [trace |-> <<PrimCall("_aligned_malloc", <<n, alignment>>, r)>>,
                    ret |-> r]
              ELSE [trace |-> <<>>, ret |-> NULL]
         ELSE IF (alignmentOffset % alignment) = 0
              THEN [trace |-> <<PrimCall("memalign", <<alignment, n>>, r)>>,
                    ret |-> r]
              ELSE [trace |-> <<>>, ret |-> NULL]
    ELSE IF (alignment <= EASTL_SYSTEM_ALLOCATOR_MIN_ALIGNMENT)
            /\ ((alignmentOffset % alignment) = 0)
         THEN [trace |-> <<PrimCall("malloc", <<n>>, r)>>, ret |-> r]
         ELSE [trace |-> <<>>, ret |-> NULL]

\* void* allocate(size_t n, size_t alignment, size_t alignmentOffset, int flags = 0)
allocate_aligned(this, p, n, alignment, alignmentOffset, flags, r) ==
    IF p.EASTL_ALIGNED_MALLOC_AVAILABLE
    THEN IF p.EA_PLATFORM_MICROSOFT
         THEN IF (alignmentOffset % alignment) = 0
              THEN [trace |-> <<PrimCall("_aligned_malloc", <<n, alignment>>, r)>>,
                    ret |-> r]
              ELSE [trace |-> <<PrimCall("_aligned_offset_malloc",
                                         <<n, alignment, alignmentOffset>>, r)>>,
                    ret |-> r]
         ELSE IF (alignmentOffset % alignment) = 0
              THEN [trace |-> <<PrimCall("memalign", <<alignment, n>>, r)>>,
                    ret |-> r]
              ELSE [trace |-> <<>>, ret |-> NULL]
    ELSE IF (alignment <= EASTL_SYSTEM_ALLOCATOR_MIN_ALIGNMENT)
            /\ ((alignmentOffset % alignment) = 0)
         THEN [trace |-> <<PrimCall("malloc", <<n>>, r)>>, ret |-> r]
         ELSE [trace |-> <<>>, ret |-> NULL]

\* deallocate calling free on every platform
deallocate_plain_free(this, p, ptr, n) == <<PrimCall("free", <<ptr>>, NULL)>>

\* void deallocate(void* p, size_t n)
deallocate(this, p, ptr, n) ==
    IF p.EASTL_ALIGNED_MALLOC_AVAILABLE /\ p.EA_PLATFORM_MICROSOFT
    THEN <<PrimCall("_aligned_free", <<ptr>>, NULL)>>
    ELSE <<PrimCall("free", <<ptr>>, NULL)>>

\* ------------------------------------------------------------------ actions
This(i) == [id |-> i, name |-> name[i]]

Init ==
    /\ platform \in {Platform(b) : b \in Builds}
    /\ name \in [Instances -> Names]
    /\ heap = {}
    /\ freed = {}
    /\ call = NoCall

\* allocator_malloc(const char* = NULL)
Construct(i, pName) ==
    /\ name' = [name EXCEPT ![i] = pName]
    /\ UNCHANGED <<platform, heap, freed, call>>

\* allocator_malloc(const allocator_malloc&)
CopyConstruct(i, j) ==
    /\ i # j
    /\ name' = [name EXCEPT ![i] = name[j]]
    /\ UNCHANGED <<platform, heap, freed, call>>

\* allocator_malloc(const allocator_malloc&, const char*)
CopyConstructNamed(i, j, pName) ==
    /\ i # j
    /\ name' = [name EXCEPT ![i] = pName]
    /\ UNCHANGED <<platform, heap, freed, call>>

\* allocator_malloc& operator=(const allocator_malloc&)
Assign(i, j) ==
    /\ name' = [name EXCEPT ![i] = name[j]]
    /\ UNCHANGED <<platform, heap, freed, call>>

\* void set_name(const char*)
SetName(i, pName) ==
    /\ name' = [name EXCEPT ![i] = pName]
    /\ UNCHANGED <<platform, heap, freed, call>>

Equal(i, j) ==
    /\ call' = [NoCall EXCEPT !.op = "operator==", !.self = i, !.other = j,
                              !.bool = operator_eq(This(i), This(j))]
    /\ UNCHANGED <<platform, name, heap, freed>>

NotEqual(i, j) ==
    /\ call' = [NoCall EXCEPT !.op = "operator!=", !.self = i, !.other = j,
                              !.bool = operator_ne(This(i), This(j))]
    /\ UNCHANGED <<platform, name, heap, freed>>

\* the blocks the primitive calls of a trace handed out
Handed(trace) ==
    {[addr |-> trace[k].result, prim |-> trace[k].prim] :
        k \in {x \in DOMAIN trace : trace[x].result # NULL}}

\* the values the primitives of a trace may return
Candidates(trace) == {NULL} \cup UNION {Returns(trace[k]) : k \in DOMAIN trace}

Allocate(i, n, flags) ==
    \E r \in Candidates(allocate(This(i), platform, n, flags, NULL).trace) :
        LET out == allocate(This(i), platform, n, flags, r) IN
        /\ \A k \in DOMAIN out.trace : out.trace[k].result \in Returns(out.trace[k])
        /\ (out.trace = <<>>) => (r = NULL)
        /\ heap' = heap \cup Handed(out.trace)
        /\ call' = [NoCall EXCEPT !.op = "allocate", !.n = n, !.trace = out.trace,
                                  !.ret = out.ret]
        /\ UNCHANGED <<platform, name, freed>>

AllocateAligned(i, n, alignment, alignmentOffset, flags) ==
    \E r \in Candidates(allocate_aligned(This(i), platform, n, alignment,
                                          alignmentOffset, flags, NULL).trace) :
        LET out == allocate_aligned(This(i), platform, n, alignment,
                                    alignmentOffset, flags, r) IN
        /\ \A k \in DOMAIN out.trace : out.trace[k].result \in Returns(out.trace[k])
        /\ (out.trace = <<>>) => (r = NULL)
        /\ heap' = heap \cup Handed(out.trace)
        /\ call' = [NoCall EXCEPT !.op = "allocate_aligned", !.n = n,
                                  !.alignment = alignment,
                                  !.alignmentOffset = alignmentOffset,
                                  !.trace = out.trace, !.ret = out.ret]
        /\ UNCHANGED <<platform, name, freed>>

Deallocate(i, b, n) ==
    LET trace == deallocate(This(i), platform, b.addr, n) IN
    /\ b \in heap
    /\ heap' = heap \ {b}
    /\ freed' = freed \cup {trace[k].prim : k \in DOMAIN trace}
    /\ call' = [NoCall EXCEPT !.op = "deallocate", !.trace = trace, !.ret = b.addr,
                              !.origin = b.prim]
    /\ UNCHANGED <<platform, name>>

Next ==
    \/ \E i \in Instances, pName \in Names : Construct(i, pName)
    \/ \E i, j \in Instances : CopyConstruct(i, j)
    \/ \E i, j \in Instances, pName \in Names : CopyConstructNamed(i, j, pName)
    \/ \E i, j \in Instances : Assign(i, j)
    \/ \E i \in Instances, pName \in Names : SetName(i, pName)
    \/ \E i, j \in Instances : Equal(i, j)
    \/ \E i, j \in Instances : NotEqual(i, j)
    \/ \E i \in Instances, n \in Sizes, flags \in Flags : Allocate(i, n, flags)
    \/ \E i \in Instances, n \in Sizes, alignment \in Alignments,
          alignmentOffset \in Offsets, flags \in Flags :
            AllocateAligned(i, n, alignment, alignmentOffset, flags)
    \/ \E i \in Instances, b \in heap, n \in Sizes : Deallocate(i, b, n)

Spec == Init /\ [][Next]_vars

\* ------------------------------------------------------------ the claims
IsAlloc(c) == c.op \in {"allocate", "allocate_aligned"}

\* what the caller asked of allocate
Request(c) == <<c.op, c.n, c.alignment, c.alignmentOffset>>

\* the primitives a call invoked and the arguments it gave them
Dispatch(c) == [k \in DOMAIN c.trace |-> <<c.trace[k].prim, c.trace[k].args>>]

\* the size argument of a primitive call (memalign takes it second)
SizeArg(pc) == IF pc.prim = "memalign" THEN pc.args[2] ELSE pc.args[1]

HasAligned == platform.EASTL_ALIGNED_MALLOC_AVAILABLE

HasOffset == platform.EASTL_ALIGNED_MALLOC_AVAILABLE /\ platform.EA_PLATFORM_MICROSOFT

\* C1: a non-null block returned by allocate(n, alignment, offset) is aligned
\* at the offset, (ret + alignmentOffset) % alignment = 0, and a non-null block
\* returned by allocate(n) is a multiple of the minimum alignment, on every
\* build configuration.
C1_Aligned ==
    /\ (call.op = "allocate_aligned" /\ call.ret # NULL)
          => (call.ret + call.alignmentOffset) % call.alignment = 0
    /\ (call.op = "allocate" /\ call.ret # NULL)
          => call.ret % EASTL_SYSTEM_ALLOCATOR_MIN_ALIGNMENT = 0

C1_Witness ==
    /\ call.op = "allocate_aligned"
    /\ call.ret # NULL
    /\ call.alignmentOffset % call.alignment # 0

\* C2: every deallocate releases the block with the one free primitive that
\* matches the primitive that allocated it: free for malloc and memalign,
\* _aligned_free for _aligned_malloc and _aligned_offset_malloc.
C2_SymmetricFree ==
    call.op = "deallocate"
        => Dispatch(call) = <<<<FreeFor(call.origin), <<call.ret>>>>>>

C2_Witness ==
    /\ call.op = "deallocate"
    /\ call.origin = "_aligned_offset_malloc"

\* C3 as stated: allocate(n) calls the aligned primitive with the minimum
\* alignment wherever an aligned primitive is available, and malloc elsewhere.
C3_Original ==
    call.op = "allocate"
        => Dispatch(call) =
              IF HasAligned
              THEN <<<<"_aligned_malloc",
                      <<call.n, EASTL_SYSTEM_ALLOCATOR_MIN_ALIGNMENT>>>>>>
              ELSE <<<<"malloc", <<call.n>>>>>>

\* C3 as amended: allocate(n) calls _aligned_malloc with the minimum alignment
\* only where aligned allocation is available on a Microsoft platform; on every
\* other build, those with memalign included, it calls malloc(n).
C3_Amended ==
    call.op = "allocate"
        => Dispatch(call) =
              IF HasAligned /\ platform.EA_PLATFORM_MICROSOFT
              THEN <<<<"_aligned_malloc",
                      <<call.n, EASTL_SYSTEM_ALLOCATOR_MIN_ALIGNMENT>>>>>>
              ELSE <<<<"malloc", <<call.n>>>>>>

C3_Witness ==
    /\ HasAligned
    /\ ~platform.EA_PLATFORM_MICROSOFT
    /\ call.op = "allocate"
    /\ Dispatch(call) = <<<<"malloc", <<call.n>>>>>>

\* C4 as stated: with the offset primitive available, every request with a
\* non-zero offset goes to _aligned_offset_malloc(n, alignment, offset).
C4_Original ==
    (HasOffset /\ call.op = "allocate_aligned" /\ call.alignmentOffset # 0)
        => Dispatch(call) =
              <<<<"_aligned_offset_malloc",
                 <<call.n, call.alignment, call.alignmentOffset>>>>>>

\* C4 as amended: with the offset primitive available, a request with a
\* non-zero offset goes to _aligned_offset_malloc(n, alignment, offset) when
\* the offset is no multiple of the alignment, and to
\* _aligned_malloc(n, alignment) when it is a non-zero multiple of it.
C4_Amended ==
    (HasOffset /\ call.op = "allocate_aligned" /\ call.alignmentOffset # 0)
        => Dispatch(call) =
              IF call.alignmentOffset % call.alignment # 0
              THEN <<<<"_aligned_offset_malloc",
                      <<call.n, call.alignment, call.alignmentOffset>>>>>>
              ELSE <<<<"_aligned_malloc", <<call.n, call.alignment>>>>>>

C4_Witness ==
    /\ HasOffset
    /\ call.op = "allocate_aligned"
    /\ call.alignmentOffset # 0
    /\ call.alignmentOffset % call.alignment = 0
    /\ call.ret # NULL

\* C5: with an aligned primitive and no offset primitive,
\* allocate(n, alignment, offset) calls memalign(alignment, n) and returns its
\* result exactly when offset % alignment = 0, and otherwise returns null
\* without calling a primitive.
C5_AlignedOnly ==
    (HasAligned /\ ~HasOffset /\ call.op = "allocate_aligned")
        => IF call.alignmentOffset % call.alignment = 0
           THEN /\ Dispatch(call) = <<<<"memalign", <<call.alignment, call.n>>>>>>
                /\ call.ret = call.trace[1].result
           ELSE /\ call.trace = <<>>
                /\ call.ret = NULL

C5_Witness ==
    /\ HasAligned /\ ~HasOffset
    /\ call.op = "allocate_aligned"
    /\ call.alignment = 8
    /\ call.alignmentOffset = 8
    /\ call.ret # NULL
    /\ call.ret % 8 = 0

\* C6: with no aligned primitive, allocate(n, alignment, offset) calls
\* malloc(n) exactly when alignment <= the minimum alignment and
\* offset % alignment = 0, and otherwise returns null without calling a
\* primitive.
C6_PlainOnly ==
    (~HasAligned /\ call.op = "allocate_aligned")
        => IF /\ call.alignment <= EASTL_SYSTEM_ALLOCATOR_MIN_ALIGNMENT
              /\ call.alignmentOffset % call.alignment = 0
           THEN Dispatch(call) = <<<<"malloc", <<call.n>>>>>>
           ELSE /\ call.trace = <<>>
                /\ call.ret = NULL

C6_Witness ==
    /\ ~HasAligned
    /\ call.op = "allocate_aligned"
    /\ call.alignment > EASTL_SYSTEM_ALLOCATOR_MIN_ALIGNMENT
    /\ call.alignmentOffset = 3
    /\ call.trace = <<>>
    /\ call.ret = NULL

\* C7: an allocate call invokes at most one primitive, once, gives it the
\* caller's size unchanged and returns what it returned; with no primitive
\* invoked it returns null.
C7_OneCall ==
    IsAlloc(call)
        => /\ Len(call.trace) <= 1
           /\ Len(call.trace) = 1
                 => /\ SizeArg(call.trace[1]) = call.n
                    /\ call.ret = call.trace[1].result
           /\ Len(call.trace) = 0 => call.ret = NULL

C7_Witness ==
    /\ IsAlloc(call)
    /\ call.n = 0
    /\ Len(call.trace) = 1
    /\ call.trace[1].result = NULL
    /\ heap = {}

\* C8: operator== yields true and operator!= yields false for any two
\* instances, whatever names they were constructed, copied, assigned or
\* renamed with.
C8_AlwaysEqual ==
    /\ call.op = "operator==" => call.bool = TRUE
    /\ call.op = "operator!=" => call.bool = FALSE

C8_Witness ==
    /\ call.op = "operator=="
    /\ call.self # call.other
    /\ name[call.self] # name[call.other]

\* C9: two allocate calls with the same request invoke the same primitive with
\* the same arguments (or both none), whichever instances made them, whatever
\* their names and flags and whatever happened in between; and all deallocate
\* calls of a run invoke one and the same free primitive.
C9_Stateless ==
    /\ [][(IsAlloc(call) /\ IsAlloc(call') /\ Request(call') = Request(call))
             => Dispatch(call') = Dispatch(call)]_vars
    /\ [](Cardinality(freed) <= 1)

C9_Witness ==
    /\ call.op = "allocate_aligned"
    /\ Len(call.trace) = 1
    /\ name[1] # name[2]
    /\ freed # {}

====
